---------------------------- MODULE Spec2Model ----------------------------
(***************************************************************************)
(* A model of script_exporter (src/script_exporter.go).  The source file   *)
(* holds the two programs of the repository that share the pipeline:       *)
(*   - the on-demand program (lines 1-298): /probe runs the selected       *)
(*     scripts through runScripts and dispatches their records;            *)
(*   - the scheduler program (lines 300-522): runScriptWorker runs every   *)
(*     script on its own ticker and dispatches its records.                *)
(* Strings the code inspects (script output, metric names, label values,   *)
(* result values) are sequences of one-character strings.                  *)
(* Specifications: Spec (both programs), SpecSched (the scheduler program  *)
(* with its goroutines scheduled fairly), SpecParse (getMetricOutput on    *)
(* the text a script writes), SpecSetup (createMetrics called repeatedly). *)
(***************************************************************************)
EXTENDS Integers, Sequences, FiniteSets, TLC

(***************************************************************************)
(* Strings                                                                 *)
(***************************************************************************)
Digits == <<"0", "1", "2", "3", "4", "5", "6", "7", "8", "9">>

DigitChars == {Digits[i] : i \in 1..Len(Digits)}

\* the class \w of the pattern: [0-9A-Za-z_]
WordChars ==
    DigitChars \cup
    {"a","b","c","d","e","f","g","h","i","j","k","l","m",
     "n","o","p","q","r","s","t","u","v","w","x","y","z"} \cup
    {"A","B","C","D","E","F","G","H","I","J","K","L","M",
     "N","O","P","Q","R","S","T","U","V","W","X","Y","Z"} \cup
    {"_"}

NL == "\n"

Str_m == <<"m">>

Str_a == <<"a">>

Str_1 == <<"1">>

Str_2 == <<"2">>

Str_x == <<"x">>

Str_b == <<"b">>

Str_g == <<"g">>

Str_l == <<"l">>

Str_zz == <<"z", "z">>

\* s[a..b] as a sequence (empty when a > b)
Slice(s, a, b) == IF a > b THEN <<>> ELSE SubSeq(s, a, b)

\* does s carry the literal lit at position i
HasAt(s, i, lit) ==
    /\ i >= 1
    /\ i + Len(lit) - 1 <= Len(s)
    /\ \A k \in 1..Len(lit) : s[i + k - 1] = lit[k]

\* strings.Split(s, sep) for a one-character separator: n separators give
\* n+1 pieces, so Split("", sep) is the one-element list [""]
RECURSIVE SplitFrom(_, _, _, _)
SplitFrom(s, sep, start, i) ==
    IF i > Len(s) THEN <<Slice(s, start, Len(s))>>
    ELSE IF s[i] = sep
         THEN <<Slice(s, start, i - 1)>> \o SplitFrom(s, sep, i + 1, i + 1)
         ELSE SplitFrom(s, sep, start, i + 1)

Split(s, sep) == SplitFrom(s, sep, 1, 1)

\* strings.Join
RECURSIVE Join(_, _)
Join(list, sep) ==
    IF list = <<>> THEN <<>>
    ELSE IF Len(list) = 1 THEN list[1]
    ELSE list[1] \o <<sep>> \o Join(Tail(list), sep)

(***************************************************************************)
(* Output protocol parser                                                  *)
(***************************************************************************)
LitName == <<"N","A","M","E",":">>

LitLabelValues == <<":","L","A","B","E","L","_","V","A","L","U","E","S",":">>

LitResult == <<":","R","E","S","U","L","T",":">>

NoMatch == <<>>

\* last position of the run of \w characters that starts at i (i-1 if none)
RECURSIVE WordRunEnd(_, _)
WordRunEnd(s, i) ==
    IF i <= Len(s) /\ s[i] \in WordChars THEN WordRunEnd(s, i + 1) ELSE i - 1

\* the ends j of a first (.+) that starts at vs: at least one character,
\* then the literal :RESULT:, then at least one character for the second (.+)
ValueEnds(s, vs) ==
    {j \in vs..Len(s) : HasAt(s, j + 1, LitResult) /\ j + Len(LitResult) < Len(s)}

SetMax(S) == CHOOSE x \in S : \A y \in S : y <= x

SetMin(S) == CHOOSE x \in S : \A y \in S : x <= y

\* the pattern matched with its first character at position i: the
\* submatches <<NAME, VALUE, VALUE>>, or NoMatch.  \w+ is followed by ':',
\* so it is the whole run of word characters; the first .+ is greedy and
\* runs to the last :RESULT: that still leaves a character after it; the
\* second .+ runs to the end of the line.
pidREAt(s, i) ==
    IF ~HasAt(s, i, LitName) THEN NoMatch
    ELSE LET ns == i + Len(LitName)
             ne == WordRunEnd(s, ns)
         IN IF ne < ns \/ ~HasAt(s, ne + 1, LitLabelValues) THEN NoMatch
            ELSE LET vs == ne + 1 + Len(LitLabelValues)
                     ends == ValueEnds(s, vs)
                 IN IF ends = {} THEN NoMatch
                    ELSE LET ve == SetMax(ends)
                         IN << Slice(s, ns, ne),
                               Slice(s, vs, ve),
                               Slice(s, ve + 1 + Len(LitResult), Len(s)) >>

\* a matcher that anchors the pattern at the start of the line
FindStringSubmatchAnchored(s) == pidREAt(s, 1)

\* pidRE.FindStringSubmatch: the pattern is not anchored, the leftmost
\* position where it matches wins
FindStringSubmatch(s) ==
    LET starts == {i \in 1..Len(s) : pidREAt(s, i) # NoMatch}
    IN IF starts = {} THEN NoMatch ELSE pidREAt(s, SetMin(starts))

RECURSIVE MatchLines(_, _)
MatchLines(lines, k) ==
    IF k > Len(lines) THEN <<>>
    ELSE LET entryMatches == FindStringSubmatch(lines[k])
         IN IF entryMatches = NoMatch
            THEN MatchLines(lines, k + 1)
            ELSE << [Name   |-> entryMatches[1],
                     Labels |-> Split(entryMatches[2], ","),
                     Result |-> entryMatches[3]] >>
                 \o MatchLines(lines, k + 1)

getMetricOutput(output) == MatchLines(Split(output, NL), 1)

(***************************************************************************)
(* strconv.ParseFloat, for the decimal integers the scripts of the model   *)
(* print: an optional sign and one or more digits.  Every other text the   *)
(* model feeds it ("", "x") is one ParseFloat rejects as well.             *)
(***************************************************************************)
DigitValue(c) == CHOOSE i \in 0..9 : Digits[i + 1] = c

RECURSIVE DecimalValue(_, _)
DecimalValue(s, acc) ==
    IF s = <<>> THEN acc ELSE DecimalValue(Tail(s), 10 * acc + DigitValue(Head(s)))

IsDigits(s) == s # <<>> /\ \A k \in 1..Len(s) : s[k] \in DigitChars

ParseFloat(s) ==
    IF s # <<>> /\ Head(s) \in {"-", "+"}
    THEN IF IsDigits(Tail(s))
         THEN [err |-> FALSE,
               val |-> IF Head(s) = "-" THEN 0 - DecimalValue(Tail(s), 0)
                       ELSE DecimalValue(Tail(s), 0)]
         ELSE [err |-> TRUE, val |-> 0]
    ELSE IF IsDigits(s) THEN [err |-> FALSE, val |-> DecimalValue(s, 0)]
    ELSE [err |-> TRUE, val |-> 0]

(***************************************************************************)
(* regexp.Compile / MatchString for the patterns a probe of the model      *)
(* sends: literal characters, '.', and a '*' after either.                 *)
(***************************************************************************)
\* a '(' is never closed and a leading '*' has nothing to repeat
Compiles(p) ==
    /\ \A k \in 1..Len(p) : p[k] # "("
    /\ (p # <<>> => p[1] # "*")

AtomMatches(c, ch) == c = "." \/ c = ch

RECURSIVE MatchHere(_, _, _, _)
MatchHere(p, pi, s, si) ==
    IF pi > Len(p) THEN TRUE
    ELSE IF pi < Len(p) /\ p[pi + 1] = "*"
         THEN \E n \in 0..(Len(s) - si + 1) :
                 /\ \A k \in 0..(n - 1) : AtomMatches(p[pi], s[si + k])
                 /\ MatchHere(p, pi + 2, s, si + n)
         ELSE /\ si <= Len(s)
              /\ AtomMatches(p[pi], s[si])
              /\ MatchHere(p, pi + 1, s, si + 1)

\* patternRegexp.MatchString: the pattern may match anywhere in the name
MatchString(p, s) == \E si \in 1..(Len(s) + 1) : MatchHere(p, 1, s, si)

(***************************************************************************)
(* Configuration: Config, Script, Metric                                   *)
(***************************************************************************)
\* the line a script prints for one record
RecordLine(name, labels, result) ==
    LitName \o name \o LitLabelValues \o Join(labels, ",") \o LitResult
    \o result \o <<NL>>

\* What the interpreter does with a script body: the text it has written
\* when it stops or is stopped, its exit status, its natural running time in
\* seconds, and whether that time is spent in a child process of the
\* interpreter (sleep) or in the interpreter itself (a loop of builtins).
Behaviour(content) ==
    CASE content = "echo m a 2"
           -> [out |-> RecordLine(Str_m, <<Str_a>>, Str_2),
               exit |-> 0, D |-> 0, child |-> FALSE]
      [] content = "echo m a 2; exit 1"
           -> [out |-> RecordLine(Str_m, <<Str_a>>, Str_2),
               exit |-> 1, D |-> 0, child |-> FALSE]
      [] content = "echo m a 1; sleep 5"
           -> [out |-> RecordLine(Str_m, <<Str_a>>, Str_1),
               exit |-> 0, D |-> 5, child |-> TRUE]
      [] content = "echo zz a 1; echo m a x; echo m a 1"
           -> [out |-> RecordLine(Str_zz, <<Str_a>>, Str_1)
                       \o RecordLine(Str_m, <<Str_a>>, Str_x)
                       \o RecordLine(Str_m, <<Str_a>>, Str_1),
               exit |-> 0, D |-> 0, child |-> FALSE]
      [] content = "while busy 5s"
           -> [out |-> <<>>, exit |-> 0, D |-> 5, child |-> FALSE]
      [] content = "echo g a 1; echo m a,b 1"
           -> [out |-> RecordLine(Str_g, <<Str_a>>, Str_1)
                       \o RecordLine(Str_m, <<Str_a, Str_b>>, Str_1),
               exit |-> 0, D |-> 0, child |-> FALSE]
      [] OTHER
           -> [out |-> <<>>, exit |-> 0, D |-> 0, child |-> FALSE]

N_success == <<"s","u","c","c","e","s","s">>

N_failure == <<"f","a","i","l","u","r","e">>

N_timeout == <<"t","i","m","e","o","u","t">>

N_labels == <<"l","a","b","e","l","s">>

N_busy == <<"b","u","s","y">>

N_faulty == <<"f","a","u","l","t","y">>

N_negative == <<"n","e","g","a","t","i","v","e">>

\* the scripts a configuration file may declare, in file order
ScriptPool ==
    << [Name |-> N_success, Content |-> "echo m a 2",
        Timeout |-> 0, Interval |-> 1],
       [Name |-> N_failure, Content |-> "echo m a 2; exit 1",
        Timeout |-> 1, Interval |-> 1],
       [Name |-> N_timeout, Content |-> "echo m a 1; sleep 5",
        Timeout |-> 2, Interval |-> 1],
       [Name |-> N_labels, Content |-> "echo zz a 1; echo m a x; echo m a 1",
        Timeout |-> 1, Interval |-> 1],
       [Name |-> N_busy, Content |-> "while busy 5s",
        Timeout |-> 2, Interval |-> 0],
       [Name |-> N_faulty, Content |-> "echo g a 1; echo m a,b 1",
        Timeout |-> 1, Interval |-> 1],
       [Name |-> N_negative, Content |-> "exit 0",
        Timeout |-> 0 - 1, Interval |-> 1] >>

MaxScripts == 2

\* the strictly increasing index lists of length n into the pool
RECURSIVE Choices(_, _)
Choices(n, from) ==
    IF n = 0 THEN {<<>>}
    ELSE UNION { { <<i>> \o rest : rest \in Choices(n - 1, i + 1) }
                 : i \in from..Len(ScriptPool) }

\* config.Scripts after yaml.Unmarshal: up to MaxScripts scripts of the pool
ScriptConfigs ==
    UNION { { [k \in 1..n |-> ScriptPool[c[k]]] : c \in Choices(n, 1) }
            : n \in 0..MaxScripts }

\* config.Metrics after yaml.Unmarshal, by map key
MetricConfigs ==
    { (Str_m :> [Name |-> "m", Type |-> "GaugeVec", Labels |-> <<Str_l>>]),
      (Str_m :> [Name |-> "m", Type |-> "GaugeVec", Labels |-> <<Str_l>>])
         @@ (Str_g :> [Name |-> "g", Type |-> "gauge", Labels |-> <<Str_l>>]),
      (Str_m :> [Name |-> "m", Type |-> "GaugeVec", Labels |-> <<Str_l>>])
         @@ (Str_b :> [Name |-> "b", Type |-> "GaugeVec", Labels |-> <<>>]) }

\* the metrics of the programs' runs: a GaugeVec with one label and a metric
\* of another type
TheMetrics ==
    (Str_m :> [Name |-> "m", Type |-> "GaugeVec", Labels |-> <<Str_l>>])
       @@ (Str_g :> [Name |-> "g", Type |-> "gauge", Labels |-> <<Str_l>>])

(***************************************************************************)
(* Script Execution Unit: runScript                                        *)
(***************************************************************************)
\* what the operating system lets an execution do: StdinPipe fails, Start
\* fails, Write to the pipe fails, or the interpreter runs the script
Envs == {"pipe_fail", "start_fail", "write_fail", "runs"}

\* has the deadline passed before the interpreter is done
Expired(beh, timeout) == beh.D >= timeout

\* when Wait returns after the deadline killed the interpreter: Stdout is a
\* MultiWriter, not a file, so Wait also waits for the copying of the output
\* pipe to end, and a child of the killed interpreter keeps that pipe open
\* until it exits
KilledWaitEnd(beh, timeout) == IF beh.child THEN beh.D ELSE timeout

\* runScript of the on-demand program: the captured text, the error ("nil"
\* for none) and the seconds the call took
runScript(script, env) ==
    LET beh == Behaviour(script.Content)
    IN  IF env = "pipe_fail"
        THEN [stdout |-> <<>>, err |-> "pipe", took |-> 0]
        ELSE IF script.Timeout <= 0
        THEN \* the context is done before Start: Start returns its error
             [stdout |-> <<>>, err |-> "context", took |-> 0]
        ELSE IF env = "start_fail"
        THEN [stdout |-> <<>>, err |-> "start", took |-> 0]
        ELSE IF env = "write_fail"
        THEN [stdout |-> <<>>, err |-> "write", took |-> 0]
        ELSE IF Expired(beh, script.Timeout)
        THEN [stdout |-> beh.out, err |-> "killed",
              took |-> KilledWaitEnd(beh, script.Timeout)]
        ELSE [stdout |-> beh.out,
              err |-> IF beh.exit = 0 THEN "nil" ELSE "exit",
              took |-> beh.D]

\* runScript of the scheduler program: the same call, returning the records
\* parsed from the captured text
runScriptRecords(script, env) ==
    LET r == runScript(script, env)
    IN  [mos |-> IF r.err \in {"pipe", "context", "start", "write"}
                 THEN <<>> ELSE getMetricOutput(r.stdout),
         err |-> r.err]

(***************************************************************************)
(* Selection Filter: scriptFilter                                          *)
(***************************************************************************)
\* a loop that keeps a script only when both criteria select it
RECURSIVE FilterFromBoth(_, _, _, _)
FilterFromBoth(scr, name, pattern, k) ==
    IF k > Len(scr) THEN <<>>
    ELSE (IF scr[k].Name = name
             /\ (pattern # <<>> /\ MatchString(pattern, scr[k].Name))
          THEN <<k>> ELSE <<>>)
         \o FilterFromBoth(scr, name, pattern, k + 1)

\* the loop over the configured scripts, from script k on
RECURSIVE FilterFrom(_, _, _, _)
FilterFrom(scr, name, pattern, k) ==
    IF k > Len(scr) THEN <<>>
    ELSE (IF scr[k].Name = name
             \/ (pattern # <<>> /\ MatchString(pattern, scr[k].Name))
          THEN <<k>> ELSE <<>>)
         \o FilterFrom(scr, name, pattern, k + 1)

\* a filter that does not ask for a selector
scriptFilterLenient(scr, name, pattern) ==
    IF pattern # <<>> /\ ~Compiles(pattern)
    THEN [err |-> "error parsing regexp", filteredScripts |-> <<>>]
    ELSE [err |-> "nil", filteredScripts |-> FilterFrom(scr, name, pattern, 1)]

\* the filtered scripts are references to the configured ones: their indexes
scriptFilter(scr, name, pattern) ==
    IF name = <<>> /\ pattern = <<>>
    THEN [err |-> "name or pattern required", filteredScripts |-> <<>>]
    ELSE IF pattern # <<>> /\ ~Compiles(pattern)
    THEN [err |-> "error parsing regexp", filteredScripts |-> <<>>]
    ELSE [err |-> "nil", filteredScripts |-> FilterFrom(scr, name, pattern, 1)]

(***************************************************************************)
(* Metric Registry & Dispatcher: createMetrics, processMetric              *)
(***************************************************************************)
OnDemand == "on-demand"

Scheduler == "scheduler"

\* m.Metric of a metric createMetrics has not instantiated
NoHandle == [gen |-> 0, vals |-> <<>>]

\* the collector init() registers in the on-demand program
BuildInfo == [name |-> "script_exporter_build_info", key |-> <<>>, gen |-> 0]

InitialRegistry(prog) == IF prog = OnDemand THEN {BuildInfo} ELSE {}

GaugeVecKeys(mets) == {k \in DOMAIN mets : mets[k].Type = "GaugeVec"}

\* prometheus.DefaultRegisterer.MustRegister(c...) of the scheduler program:
\* it panics when a collector of the same name is registered already
MustRegister(mets, reg, g) ==
    LET names == {mets[k].Name : k \in GaugeVecKeys(mets)}
    IN  IF \E e \in reg : e.name \in names
        THEN [panic |-> TRUE, registry |-> reg]
        ELSE [panic |-> FALSE,
              registry |-> reg \cup {[name |-> mets[k].Name, key |-> k, gen |-> g]
                                      : k \in GaugeVecKeys(mets)}]

\* the on-demand createMetrics registers nothing
NoRegister(mets, reg, g) == [panic |-> FALSE, registry |-> reg]

\* a createMetrics that makes a handle for every declared metric, whatever
\* its type
createMetricsAnyType(prog, mets, hs, reg, g) ==
    LET made == [k \in DOMAIN mets |-> [gen |-> g, vals |-> <<>>]]
        r == IF prog = Scheduler THEN MustRegister(mets, reg, g)
             ELSE NoRegister(mets, reg, g)
    IN  [handles |-> made, registry |-> r.registry, panic |-> r.panic]

\* createMetrics, call number g: a new GaugeVec for every metric of type
\* "GaugeVec"; the scheduler program then registers them
createMetrics(prog, mets, hs, reg, g) ==
    LET made == [k \in DOMAIN mets |->
                    IF mets[k].Type = "GaugeVec"
                    THEN [gen |-> g, vals |-> <<>>] ELSE hs[k]]
        r == IF prog = Scheduler THEN MustRegister(mets, reg, g)
             ELSE NoRegister(mets, reg, g)
    IN  [handles |-> made, registry |-> r.registry, panic |-> r.panic]

\* the dynamic type of the value NewGaugeVec returns, and the type each
\* program's processMetric asserts m.Metric to have
StoredType == "*prometheus.GaugeVec"

AssertedType(prog) ==
    IF prog = OnDemand THEN "prometheus.GaugeVec" ELSE "*prometheus.GaugeVec"

ValueAt(h, lvs) == IF lvs \in DOMAIN h.vals THEN h.vals[lvs] ELSE 0

\* Gauge.Add of the on-demand program, Gauge.Set of the scheduler program
Add(h, lvs, r) ==
    [h EXCEPT !.vals = (lvs :> (ValueAt(h, lvs) + r)) @@ h.vals]

Set(h, lvs, r) ==
    [h EXCEPT !.vals = (lvs :> r) @@ h.vals]

Mutate(prog, h, lvs, r) ==
    IF prog = OnDemand THEN Add(h, lvs, r) ELSE Set(h, lvs, r)

\* a processMetric that fetches the labelled gauge before it parses the result
processMetricEager(prog, m, h, mo) ==
    IF m.Type # "GaugeVec" THEN [what |-> "ignored", handle |-> h]
    ELSE LET ok == h # NoHandle /\ StoredType = AssertedType(prog)
             r == ParseFloat(mo.Result)
         IN  IF ~ok \/ Len(mo.Labels) # Len(m.Labels)
             THEN [what |-> "panic", handle |-> h]
             ELSE IF r.err THEN [what |-> "ignored", handle |-> h]
             ELSE [what |-> "applied",
                   handle |-> Mutate(prog, h, mo.Labels, r.val)]

\* processMetric on metric m with handle h: what happens ("ignored",
\* "applied" or "panic") and the handle afterwards.  A failed type assertion
\* leaves the zero GaugeVec (on-demand) or a nil pointer (scheduler), and
\* WithLabelValues on either is a nil dereference; WithLabelValues on a live
\* GaugeVec panics when the number of label values is not the declared one.
processMetric(prog, m, h, mo) ==
    IF m.Type # "GaugeVec" THEN [what |-> "ignored", handle |-> h]
    ELSE LET ok == h # NoHandle /\ StoredType = AssertedType(prog)
             r == ParseFloat(mo.Result)
         IN  IF r.err THEN [what |-> "ignored", handle |-> h]
             ELSE IF ~ok THEN [what |-> "panic", handle |-> h]
             ELSE IF Len(mo.Labels) # Len(m.Labels)
             THEN [what |-> "panic", handle |-> h]
             ELSE [what |-> "applied",
                   handle |-> Mutate(prog, h, mo.Labels, r.val)]

(***************************************************************************)
(* State                                                                   *)
(***************************************************************************)
VARIABLES
    program,      \* which of the two programs runs: OnDemand or Scheduler
    phase,        \* "boot" before main has set up, "serving" after
    crashed,      \* the process died of a panic outside a request handler
    scripts,      \* config.Scripts
    metrics,      \* config.Metrics, by map key
    handles,      \* m.Metric of every metric: NoHandle or a GaugeVec
    registry,     \* the collectors registered with the default registry
    calls,        \* how many times createMetrics has run
    rpc,          \* the probe request: "idle", "run", "dispatch", "done"
    req,          \* its query parameters name and pattern
    selected,     \* the scripts handed to runScripts (indexes into scripts)
    wpc,          \* runScripts' goroutines: "start", "send", "done"
    wres,         \* the Measurement each goroutine has built
    measurements, \* runScripts' result list
    cur,          \* scriptRunHandler's place in its two dispatch loops
    resp,         \* the answer: "none", "200", "500", "aborted" (handler panic)
    body,         \* the text written to the response
    probes,       \* probe requests received so far
    tpc,          \* runScriptWorker's goroutines: "new", "wait", "running",
                  \* "dispatch"
    tickPending,  \* a tick waits in the ticker's channel (capacity one)
    ticks,        \* ticks fired so far, per script
    tenv,         \* what the running execution of a script meets
    trecs,        \* the records a scheduler goroutine is dispatching
    tcur,         \* its place in them
    elig,         \* history: per metric and label vector, the sum and the last
                  \* of the values of the well-formed records dispatched
    lineSpecs,    \* parser harness: how each line of the output was written
    output,       \* parser harness: the captured text handed to the parser
    parsed,       \* parser harness: what getMetricOutput returned
    ppc           \* parser harness: "input" before the call, "parsed" after

configVars == <<program, phase, crashed, scripts, metrics>>

registryVars == <<handles, registry, calls>>

probeVars ==
    <<rpc, req, selected, wpc, wres, measurements, cur, resp, body, probes>>

schedVars == <<tpc, tickPending, ticks, tenv, trecs, tcur>>

parseVars == <<lineSpecs, output, parsed, ppc>>

vars == <<configVars, registryVars, probeVars, schedVars, elig, parseVars>>

\* the variables of a part of the model that a specification does not run
ParseOff ==
    /\ lineSpecs = <<>>
    /\ output = <<>>
    /\ parsed = <<>>
    /\ ppc = "off"

ProbeOff ==
    /\ rpc = "idle"
    /\ req = [name |-> <<>>, pattern |-> <<>>]
    /\ selected = <<>>
    /\ wpc = <<>>
    /\ wres = <<>>
    /\ measurements = <<>>
    /\ cur = [m |-> 1, r |-> 1]
    /\ resp = "none"
    /\ body = ""
    /\ probes = 0

SchedOff ==
    /\ tpc = <<>>
    /\ tickPending = <<>>
    /\ ticks = <<>>
    /\ tenv = <<>>
    /\ trecs = <<>>
    /\ tcur = <<>>

ProgramOff ==
    /\ program = "none"
    /\ phase = "off"
    /\ crashed = FALSE
    /\ scripts = <<>>
    /\ metrics = <<>>
    /\ handles = <<>>
    /\ registry = {}
    /\ calls = 0
    /\ elig = <<>>
    /\ ProbeOff
    /\ SchedOff

(***************************************************************************)
(* Parser harness: a script writes lines, getMetricOutput reads the text   *)
(***************************************************************************)
MaxLines == 2

\* what a script may put in front of NAME: on a line
LinePrefixes == { <<>>, <<"x", " ">> }

LineNames == { Str_m, <<"a", "-", "b">> }

\* the label values a script joins with ','
LineLabelLists == { <<>>, <<Str_a>>, <<Str_a, <<" ", "b">>>> }

LineResults == { Str_1, <<>> }

\* what a script may write after the result: nothing, or a second :RESULT:
LineTails == { <<>>, Str_2 }

\* lines that carry no record at all
FreeLines == { <<"h", "i">>, LitName \o Str_m }

LineSpecs ==
    [kind : {"record"}, prefix : LinePrefixes, name : LineNames,
     labels : LineLabelLists, result : LineResults, tail : LineTails,
     text : {<<>>}]
    \cup
    [kind : {"free"}, prefix : {<<>>}, name : {<<>>},
     labels : {<<>>}, result : {<<>>}, tail : {<<>>}, text : FreeLines]

\* the line a script writes for a line spec
LineText(ls) ==
    IF ls.kind = "free" THEN ls.text
    ELSE ls.prefix \o LitName \o ls.name \o LitLabelValues
         \o Join(ls.labels, ",") \o LitResult \o ls.result
         \o (IF ls.tail = <<>> THEN <<>> ELSE LitResult \o ls.tail)

\* every line is written with its newline, as echo does
RECURSIVE OutputText(_)
OutputText(specs) ==
    IF specs = <<>> THEN <<>>
    ELSE LineText(Head(specs)) \o <<NL>> \o OutputText(Tail(specs))

ParseInit ==
    /\ lineSpecs \in UNION {[1..n -> LineSpecs] : n \in 0..MaxLines}
    /\ output = OutputText(lineSpecs)
    /\ parsed = <<>>
    /\ ppc = "input"
    /\ ProgramOff

ParseCall ==
    /\ ppc = "input"
    /\ parsed' = getMetricOutput(output)
    /\ ppc' = "parsed"
    /\ UNCHANGED <<lineSpecs, output>>
    /\ UNCHANGED <<configVars, registryVars, probeVars, schedVars, elig>>

ParseNext == ParseCall

SpecParse == ParseInit /\ [][ParseNext]_vars

(***************************************************************************)
(* main: both programs                                                     *)
(***************************************************************************)
DefaultTimeout == 15

\* main's loop over config.Scripts: a zero timeout becomes the default
ApplyDefaults(scr) ==
    [k \in 1..Len(scr) |->
        IF scr[k].Timeout = 0 THEN [scr[k] EXCEPT !.Timeout = DefaultTimeout]
        ELSE scr[k]]

Init ==
    /\ program \in {OnDemand, Scheduler}
    /\ phase = "boot"
    /\ crashed = FALSE
    /\ scripts \in ScriptConfigs
    /\ metrics = TheMetrics
    /\ handles = [k \in DOMAIN metrics |-> NoHandle]
    /\ registry = InitialRegistry(program)
    /\ calls = 0
    /\ elig = <<>>
    /\ ProbeOff
    /\ SchedOff
    /\ ParseOff

\* main up to ListenAndServe: the timeout defaults, createMetrics and, in the
\* scheduler program, runScriptWorker's one goroutine per script
Main ==
    /\ phase = "boot"
    /\ LET cm == createMetrics(program, metrics, handles, registry, calls + 1)
       IN  /\ handles' = cm.handles
           /\ registry' = cm.registry
           /\ crashed' = cm.panic
    /\ calls' = calls + 1
    /\ scripts' = ApplyDefaults(scripts)
    /\ phase' = "serving"
    /\ IF program = Scheduler
       THEN /\ tpc' = [k \in 1..Len(scripts) |-> "new"]
            /\ tickPending' = [k \in 1..Len(scripts) |-> FALSE]
            /\ ticks' = [k \in 1..Len(scripts) |-> 0]
            /\ tenv' = [k \in 1..Len(scripts) |-> "none"]
            /\ trecs' = [k \in 1..Len(scripts) |-> <<>>]
            /\ tcur' = [k \in 1..Len(scripts) |-> 1]
       ELSE UNCHANGED schedVars
    /\ UNCHANGED <<program, metrics, probeVars, elig, parseVars>>

Serving == phase = "serving" /\ ~crashed

(***************************************************************************)
(* Dispatch, shared by scriptRunHandler and runScriptWorker                *)
(***************************************************************************)
\* a record the dispatcher is bound to apply: its metric is declared with a
\* handle type, its label values are as many as the declared label names and
\* its result is a number
WellFormed(mo) ==
    /\ mo.Name \in DOMAIN metrics
    /\ metrics[mo.Name].Type = "GaugeVec"
    /\ Len(mo.Labels) = Len(metrics[mo.Name].Labels)
    /\ IsDigits(mo.Result)

\* the history of the well-formed records handed to the dispatcher
Noted(mo) ==
    IF WellFormed(mo)
    THEN LET key == <<mo.Name, mo.Labels>>
             v == DecimalValue(mo.Result, 0)
             old == IF key \in DOMAIN elig THEN elig[key].sum ELSE 0
         IN  (key :> [sum |-> old + v, last |-> v]) @@ elig
    ELSE elig

\* the body of both dispatch loops for one record: what happens ("unknown"
\* for a metric name the configuration does not declare) and the handles
\* afterwards
Dispatch(mo) ==
    IF mo.Name \in DOMAIN metrics
    THEN LET pm == processMetric(program, metrics[mo.Name], handles[mo.Name], mo)
         IN  [what |-> pm.what,
              handles |-> [handles EXCEPT ![mo.Name] = pm.handle]]
    ELSE [what |-> "unknown", handles |-> handles]

(***************************************************************************)
(* On-demand program: scriptRunHandler and runScripts                      *)
(***************************************************************************)
MaxProbes == 2

ReqNames == { <<>>, N_success }

ReqPatterns ==
    { <<>>, <<".", "*">>, <<"f", "a", "i", "l", ".", "*">>, <<"(">> }

\* a success flag that does not look at the error
SuccessAlways(err) == 1

\* success := 0, set to 1 when runScript returned no error
SuccessOf(err) == IF err = "nil" THEN 1 ELSE 0

\* a loop that stops one result short
CollectCountShort(scr) == Len(scr) - 1

\* how many results runScripts' loop takes from the channel
CollectCount(scr) == Len(scr)

\* the first place at or after (m, r) that holds a record, or the place just
\* after the last measurement
RECURSIVE NextRecord(_, _, _)
NextRecord(ms, m, r) ==
    IF m > Len(ms) THEN [m |-> Len(ms) + 1, r |-> 1]
    ELSE IF r <= Len(ms[m].MetricOutputs) THEN [m |-> m, r |-> r]
    ELSE NextRecord(ms, m + 1, 1)

\* a probe request arrives: scriptFilter, then either the 500 answer or the
\* start of runScripts, one goroutine per filtered script
Probe(name, pattern) ==
    /\ Serving
    /\ program = OnDemand
    /\ rpc \in {"idle", "done"}
    /\ probes < MaxProbes
    /\ probes' = probes + 1
    /\ req' = [name |-> name, pattern |-> pattern]
    /\ LET f == scriptFilter(scripts, name, pattern)
       IN  /\ selected' = f.filteredScripts
           /\ IF f.err # "nil"
              THEN /\ rpc' = "done"
                   /\ resp' = "500"
                   /\ body' = f.err
                   /\ wpc' = <<>>
              ELSE /\ rpc' = "run"
                   /\ resp' = "none"
                   /\ body' = ""
                   /\ wpc' = [k \in 1..Len(f.filteredScripts) |-> "start"]
           /\ wres' = [k \in 1..Len(f.filteredScripts) |-> <<>>]
    /\ measurements' = <<>>
    /\ cur' = [m |-> 1, r |-> 1]
    /\ UNCHANGED <<configVars, registryVars, schedVars, elig, parseVars>>

\* one goroutine of runScripts up to its send: runScript, the success flag,
\* the duration and the parsed records
WorkerRun(k, env) ==
    /\ Serving
    /\ rpc = "run"
    /\ k \in 1..Len(wpc)
    /\ wpc[k] = "start"
    /\ LET r == runScript(scripts[selected[k]], env)
       IN  wres' = [wres EXCEPT ![k] =
                       [Script |-> selected[k],
                        Duration |-> r.took,
                        Success |-> SuccessOf(r.err),
                        MetricOutputs |-> getMetricOutput(r.stdout),
                        env |-> env]]
    /\ wpc' = [wpc EXCEPT ![k] = "send"]
    /\ UNCHANGED <<configVars, registryVars, schedVars, elig, parseVars>>
    /\ UNCHANGED <<rpc, req, selected, measurements, cur, resp, body, probes>>

\* the channel is unbuffered: a goroutine's send and the loop's receive are
\* one step
Collect(k) ==
    /\ Serving
    /\ rpc = "run"
    /\ k \in 1..Len(wpc)
    /\ wpc[k] = "send"
    /\ Len(measurements) < CollectCount(selected)
    /\ measurements' = Append(measurements, wres[k])
    /\ wpc' = [wpc EXCEPT ![k] = "done"]
    /\ UNCHANGED <<configVars, registryVars, schedVars, elig, parseVars>>
    /\ UNCHANGED <<rpc, req, selected, wres, cur, resp, body, probes>>

\* a runScripts that returns with the first result it receives
RunScriptsReturnEarly ==
    /\ Serving
    /\ rpc = "run"
    /\ (Len(measurements) >= 1 \/ Len(selected) = 0)
    /\ rpc' = "dispatch"
    /\ cur' = NextRecord(measurements, 1, 1)
    /\ UNCHANGED <<configVars, registryVars, schedVars, elig, parseVars>>
    /\ UNCHANGED <<req, selected, wpc, wres, measurements, resp, body, probes>>

\* runScripts returns once its loop has taken len(scripts) results
RunScriptsReturn ==
    /\ Serving
    /\ rpc = "run"
    /\ Len(measurements) >= CollectCount(selected)
    /\ rpc' = "dispatch"
    /\ cur' = NextRecord(measurements, 1, 1)
    /\ UNCHANGED <<configVars, registryVars, schedVars, elig, parseVars>>
    /\ UNCHANGED <<req, selected, wpc, wres, measurements, resp, body, probes>>

\* one pass of the handler's inner loop.  A panic of processMetric ends the
\* request: the HTTP server recovers it and drops the connection.
ProbeDispatch ==
    /\ Serving
    /\ rpc = "dispatch"
    /\ cur.m <= Len(measurements)
    /\ LET mo == measurements[cur.m].MetricOutputs[cur.r]
           d == Dispatch(mo)
       IN  /\ elig' = Noted(mo)
           /\ handles' = d.handles
           /\ IF d.what = "panic"
              THEN /\ rpc' = "done"
                   /\ resp' = "aborted"
                   /\ cur' = cur
              ELSE /\ rpc' = rpc
                   /\ resp' = resp
                   /\ cur' = NextRecord(measurements, cur.m, cur.r + 1)
    /\ UNCHANGED <<configVars, registry, calls, schedVars, parseVars>>
    /\ UNCHANGED <<req, selected, wpc, wres, measurements, body, probes>>

\* the handler returns without having written anything: the answer is 200
ProbeReturn ==
    /\ Serving
    /\ rpc = "dispatch"
    /\ cur.m > Len(measurements)
    /\ rpc' = "done"
    /\ resp' = "200"
    /\ UNCHANGED <<configVars, registryVars, schedVars, elig, parseVars>>
    /\ UNCHANGED <<req, selected, wpc, wres, measurements, cur, body, probes>>

(***************************************************************************)
(* Scheduler program: runScriptWorker                                      *)
(***************************************************************************)
\* the ticks of all tickers together that a run of the model lets fire
MaxTicks == 3

RECURSIVE TotalTicks(_, _)
TotalTicks(t, k) == IF k > Len(t) THEN 0 ELSE t[k] + TotalTicks(t, k + 1)

\* time.NewTicker at the start of a script's goroutine: it panics on an
\* interval that is not positive, and a panic in a goroutine ends the process
StartTicker(k) ==
    /\ Serving
    /\ k \in 1..Len(tpc)
    /\ tpc[k] = "new"
    /\ IF scripts[k].Interval <= 0
       THEN /\ crashed' = TRUE
            /\ tpc' = tpc
       ELSE /\ crashed' = crashed
            /\ tpc' = [tpc EXCEPT ![k] = "wait"]
    /\ UNCHANGED <<program, phase, scripts, metrics>>
    /\ UNCHANGED <<registryVars, probeVars, elig, parseVars>>
    /\ UNCHANGED <<tickPending, ticks, tenv, trecs, tcur>>

\* the ticker of script k fires: the tick is put in the channel, or dropped
\* when the channel still holds the previous one
Tick(k) ==
    /\ Serving
    /\ k \in 1..Len(tpc)
    /\ tpc[k] # "new"
    /\ TotalTicks(ticks, 1) < MaxTicks
    /\ ticks' = [ticks EXCEPT ![k] = @ + 1]
    /\ tickPending' = [tickPending EXCEPT ![k] = TRUE]
    /\ UNCHANGED <<configVars, registryVars, probeVars, elig, parseVars>>
    /\ UNCHANGED <<tpc, tenv, trecs, tcur>>

\* one worker for all the scripts: a tick is taken only while no other
\* script's execution is in flight
TakeTickSerial(k, env) ==
    /\ Serving
    /\ k \in 1..Len(tpc)
    /\ tpc[k] = "wait"
    /\ tickPending[k]
    /\ \A j \in 1..Len(tpc) : tpc[j] # "running"
    /\ tickPending' = [tickPending EXCEPT ![k] = FALSE]
    /\ tpc' = [tpc EXCEPT ![k] = "running"]
    /\ tenv' = [tenv EXCEPT ![k] = env]
    /\ UNCHANGED <<configVars, registryVars, probeVars, elig, parseVars>>
    /\ UNCHANGED <<ticks, trecs, tcur>>

\* a tick starts an execution whatever the goroutine is doing
TakeTickOverlap(k, env) ==
    /\ Serving
    /\ k \in 1..Len(tpc)
    /\ tpc[k] \in {"wait", "running", "dispatch"}
    /\ tickPending[k]
    /\ tickPending' = [tickPending EXCEPT ![k] = FALSE]
    /\ tpc' = [tpc EXCEPT ![k] = "running"]
    /\ tenv' = [tenv EXCEPT ![k] = env]
    /\ UNCHANGED <<configVars, registryVars, probeVars, elig, parseVars>>
    /\ UNCHANGED <<ticks, trecs, tcur>>

\* the goroutine of script k takes a tick and calls runScript
TakeTick(k, env) ==
    /\ Serving
    /\ k \in 1..Len(tpc)
    /\ tpc[k] = "wait"
    /\ tickPending[k]
    /\ tickPending' = [tickPending EXCEPT ![k] = FALSE]
    /\ tpc' = [tpc EXCEPT ![k] = "running"]
    /\ tenv' = [tenv EXCEPT ![k] = env]
    /\ UNCHANGED <<configVars, registryVars, probeVars, elig, parseVars>>
    /\ UNCHANGED <<ticks, trecs, tcur>>

\* a loop that returns on an error instead of going on
AfterRunStop(r) ==
    IF r.err # "nil"
    THEN [pc |-> "stopped", recs |-> <<>>]
    ELSE IF r.mos = <<>>
    THEN [pc |-> "wait", recs |-> <<>>]
    ELSE [pc |-> "dispatch", recs |-> r.mos]

\* what the goroutine does with runScript's result: on an error it goes back
\* to waiting for a tick, otherwise it dispatches the records
AfterRun(r) ==
    IF r.err # "nil" \/ r.mos = <<>>
    THEN [pc |-> "wait", recs |-> <<>>]
    ELSE [pc |-> "dispatch", recs |-> r.mos]

\* runScript returns in the goroutine of script k
FinishRun(k) ==
    /\ Serving
    /\ k \in 1..Len(tpc)
    /\ tpc[k] = "running"
    /\ LET a == AfterRun(runScriptRecords(scripts[k], tenv[k]))
       IN  /\ tpc' = [tpc EXCEPT ![k] = a.pc]
           /\ trecs' = [trecs EXCEPT ![k] = a.recs]
    /\ tcur' = [tcur EXCEPT ![k] = 1]
    /\ tenv' = [tenv EXCEPT ![k] = "none"]
    /\ UNCHANGED <<configVars, registryVars, probeVars, elig, parseVars>>
    /\ UNCHANGED <<tickPending, ticks>>

\* one pass of the goroutine's loop over the records.  A panic of
\* processMetric is in a goroutine nobody recovers: the process ends.
SchedDispatch(k) ==
    /\ Serving
    /\ k \in 1..Len(tpc)
    /\ tpc[k] = "dispatch"
    /\ LET mo == trecs[k][tcur[k]]
           d == Dispatch(mo)
           last == tcur[k] = Len(trecs[k])
       IN  /\ elig' = Noted(mo)
           /\ handles' = d.handles
           /\ crashed' = (d.what = "panic")
           /\ IF d.what = "panic"
              THEN UNCHANGED <<tpc, trecs, tcur>>
              ELSE /\ tpc' = [tpc EXCEPT ![k] = IF last THEN "wait" ELSE @]
                   /\ trecs' = [trecs EXCEPT ![k] = IF last THEN <<>> ELSE @]
                   /\ tcur' = [tcur EXCEPT ![k] = IF last THEN 1 ELSE @ + 1]
    /\ UNCHANGED <<program, phase, scripts, metrics>>
    /\ UNCHANGED <<registry, calls, probeVars, parseVars>>
    /\ UNCHANGED <<tickPending, ticks, tenv>>

(***************************************************************************)
(* The two programs                                                        *)
(***************************************************************************)
Next ==
    \/ Main
    \/ \E name \in ReqNames, pattern \in ReqPatterns : Probe(name, pattern)
    \/ \E k \in 1..MaxScripts, env \in Envs : WorkerRun(k, env)
    \/ \E k \in 1..MaxScripts : Collect(k)
    \/ RunScriptsReturn
    \/ ProbeDispatch
    \/ ProbeReturn
    \/ \E k \in 1..MaxScripts : StartTicker(k)
    \/ \E k \in 1..MaxScripts : Tick(k)
    \/ \E k \in 1..MaxScripts, env \in Envs : TakeTick(k, env)
    \/ \E k \in 1..MaxScripts : FinishRun(k)
    \/ \E k \in 1..MaxScripts : SchedDispatch(k)

Spec == Init /\ [][Next]_vars

\* FinishRun(k) can happen
InFlight(k) == Serving /\ k \in 1..Len(tpc) /\ tpc[k] = "running"

\* The scheduler's goroutines are scheduled by the Go runtime, which lets
\* every runnable goroutine run: one that can receive its tick does, a
\* dispatch loop goes on, and a call of runScript on a script that ends
\* returns.  The last is weak fairness of FinishRun(k), written with its
\* enabling condition: FinishRun(k) is enabled exactly when InFlight(k) and
\* is the only step that ends InFlight(k) in a running process.
SchedFairness ==
    \A k \in 1..MaxScripts :
        /\ WF_vars(\E env \in Envs : TakeTick(k, env))
        /\ WF_vars(SchedDispatch(k))
        /\ []<>(~InFlight(k))

\* the scheduler program alone, with its goroutines scheduled fairly
SchedInit == Init /\ program = Scheduler

SchedNext ==
    \/ Main
    \/ \E k \in 1..MaxScripts : StartTicker(k)
    \/ \E k \in 1..MaxScripts : Tick(k)
    \/ \E k \in 1..MaxScripts, env \in Envs : TakeTick(k, env)
    \/ \E k \in 1..MaxScripts : FinishRun(k)
    \/ \E k \in 1..MaxScripts : SchedDispatch(k)

SpecSched == SchedInit /\ [][SchedNext]_vars /\ SchedFairness

(***************************************************************************)
(* Registry setup harness: createMetrics called again and again, records   *)
(* dispatched in between                                                   *)
(***************************************************************************)
MaxSetupCalls == 2

MaxSetupRecords == 2

SetupRecords ==
    { [Name |-> Str_m, Labels |-> <<l>>, Result |-> v]
      : l \in {Str_a, Str_b}, v \in {Str_1, Str_2} }

SetupInit ==
    /\ program \in {OnDemand, Scheduler}
    /\ phase = "setup"
    /\ crashed = FALSE
    /\ scripts = <<>>
    /\ metrics \in MetricConfigs
    /\ handles = [k \in DOMAIN metrics |-> NoHandle]
    /\ registry = InitialRegistry(program)
    /\ calls = 0
    /\ elig = <<>>
    /\ ProbeOff
    /\ SchedOff
    /\ ParseOff

\* a call of createMetrics(config.Metrics)
SetupCall ==
    /\ ~crashed
    /\ calls < MaxSetupCalls
    /\ LET cm == createMetrics(program, metrics, handles, registry, calls + 1)
       IN  /\ handles' = cm.handles
           /\ registry' = cm.registry
           /\ crashed' = cm.panic
    /\ calls' = calls + 1
    /\ UNCHANGED <<program, phase, scripts, metrics>>
    /\ UNCHANGED <<rpc, req, selected, wpc, wres, measurements, cur, resp, body>>
    /\ UNCHANGED <<probes, schedVars, elig, parseVars>>

\* a record is dispatched to the handles of the last call
SetupDispatch(mo) ==
    /\ ~crashed
    /\ calls >= 1
    /\ probes < MaxSetupRecords
    /\ probes' = probes + 1
    /\ LET d == Dispatch(mo)
       IN  /\ handles' = d.handles
           /\ crashed' = (d.what = "panic")
    /\ elig' = Noted(mo)
    /\ UNCHANGED <<program, phase, scripts, metrics, registry, calls>>
    /\ UNCHANGED <<rpc, req, selected, wpc, wres, measurements, cur, resp, body>>
    /\ UNCHANGED <<schedVars, parseVars>>

SetupNext ==
    \/ SetupCall
    \/ \E mo \in SetupRecords : SetupDispatch(mo)

SpecSetup == SetupInit /\ [][SetupNext]_vars

(***************************************************************************)
(* Claims about the parser (SpecParse)                                     *)
(***************************************************************************)
IsWord(s) == s # <<>> /\ \A k \in 1..Len(s) : s[k] \in WordChars

\* the records expected of the lines written: flags[k] tells whether line k
\* carries a record and recs[k] is the record it then holds
RECURSIVE ExpectedRecords(_, _, _)
ExpectedRecords(flags, recs, k) ==
    IF k > Len(flags) THEN <<>>
    ELSE (IF flags[k] THEN <<recs[k]>> ELSE <<>>)
         \o ExpectedRecords(flags, recs, k + 1)

\* the line is exactly NAME:<n>:LABEL_VALUES:<v1,...,vk>:RESULT:<r>, with
\* n a word, k >= 1 and r not empty
StatedForm(ls) ==
    /\ ls.kind = "record"
    /\ ls.prefix = <<>>
    /\ IsWord(ls.name)
    /\ ls.labels # <<>>
    /\ ls.result # <<>>

StatedRecord(ls) ==
    [Name |-> ls.name, Labels |-> ls.labels, Result |-> ls.result]

\* C5 as stated, for outputs whose lines hold :RESULT: once: one record per
\* line of the form NAME:<n>:LABEL_VALUES:<v1,...,vk>:RESULT:<r>, in line
\* order, with Name = n, Labels = [v1..vk] and Result = r, and no record for
\* any other line.
C5_AsStated ==
    (ppc = "parsed" /\ \A k \in 1..Len(lineSpecs) : lineSpecs[k].tail = <<>>) =>
        parsed = ExpectedRecords([k \in 1..Len(lineSpecs) |-> StatedForm(lineSpecs[k])],
                                 [k \in 1..Len(lineSpecs) |-> StatedRecord(lineSpecs[k])],
                                 1)

\* what the pattern takes as the label field and as the result of a line:
\* the label field runs to the last :RESULT: of the line
FieldOf(ls) ==
    IF ls.tail = <<>> THEN Join(ls.labels, ",")
    ELSE Join(ls.labels, ",") \o LitResult \o ls.result

FinalOf(ls) == IF ls.tail = <<>> THEN ls.result ELSE ls.tail

CarriesRecord(ls) ==
    /\ ls.kind = "record"
    /\ IsWord(ls.name)
    /\ FieldOf(ls) # <<>>
    /\ FinalOf(ls) # <<>>

CarriedLabels(ls) ==
    IF ls.tail = <<>> THEN ls.labels
    ELSE IF ls.labels = <<>> THEN << LitResult \o ls.result >>
    ELSE [ls.labels EXCEPT ![Len(ls.labels)] = @ \o LitResult \o ls.result]

CarriedRecord(ls) ==
    [Name |-> ls.name, Labels |-> CarriedLabels(ls), Result |-> FinalOf(ls)]

\* C5 (amended): getMetricOutput returns one record per line that contains
\* NAME:<n>:LABEL_VALUES:<field>:RESULT:<r> anywhere in it (text before NAME:
\* is ignored), n being one or more word characters and field and r not
\* empty, in line order, with Name = n, Labels = field split on ',' without
\* trimming and Result = r, the field running to the last :RESULT: of the
\* line; every other line contributes nothing and stops nothing.
C5_Parser ==
    ppc = "parsed" =>
        parsed = ExpectedRecords([k \in 1..Len(lineSpecs) |-> CarriesRecord(lineSpecs[k])],
                                 [k \in 1..Len(lineSpecs) |-> CarriedRecord(lineSpecs[k])],
                                 1)

\* a skipped line, then a record behind leading text with an untrimmed label
C5_Witness ==
    /\ ppc = "parsed"
    /\ Len(lineSpecs) = 2
    /\ lineSpecs[1].kind = "free"
    /\ CarriesRecord(lineSpecs[2])
    /\ lineSpecs[2].prefix # <<>>
    /\ Len(lineSpecs[2].labels) = 2
    /\ parsed = <<CarriedRecord(lineSpecs[2])>>

EmptyLabelsLine(ls) ==
    /\ ls.kind = "record"
    /\ ls.prefix = <<>>
    /\ IsWord(ls.name)
    /\ ls.labels = <<>>
    /\ ls.result # <<>>
    /\ ls.tail = <<>>

\* C6: a line NAME:<n>:LABEL_VALUES::RESULT:<r> (empty label-values field)
\* is parsed into a record whose Labels is the one-element list [""].
C6_EmptyLabels ==
    ppc = "parsed" =>
        \A k \in 1..Len(lineSpecs) :
            EmptyLabelsLine(lineSpecs[k]) =>
                \E j \in 1..Len(parsed) :
                    parsed[j] = [Name   |-> lineSpecs[k].name,
                                 Labels |-> << <<>> >>,
                                 Result |-> lineSpecs[k].result]

(***************************************************************************)
(* Claims about the on-demand program and the scheduler program (Spec)     *)
(***************************************************************************)
RunScriptsReturned ==
    program = OnDemand /\ rpc \in {"dispatch", "done"} /\ resp # "500"

\* C1: whatever the outcomes and the completion order, runScripts returns
\* exactly len(scripts) Measurements and every input script is referenced by
\* exactly one of them.
C1_OneResultPerScript ==
    RunScriptsReturned =>
        /\ Len(measurements) = Len(selected)
        /\ \A k \in 1..Len(selected) :
              Cardinality({j \in 1..Len(measurements) :
                              measurements[j].Script = selected[k]}) = 1

\* two scripts, the second finished first, one failed and one succeeded
C1_Witness ==
    /\ RunScriptsReturned
    /\ Len(selected) = 2
    /\ measurements[1].Script = selected[2]
    /\ measurements[2].Script = selected[1]
    /\ measurements[1].Success = 0
    /\ measurements[2].Success = 1

\* the interpreter ran the script to its end and exited with status zero
ExitedZero(script, env) ==
    /\ env = "runs"
    /\ script.Timeout > 0
    /\ Behaviour(script.Content).D < script.Timeout
    /\ Behaviour(script.Content).exit = 0

Built == {k \in 1..Len(wres) : wres[k] # <<>>}

\* C2: a Measurement has Success = 1 if and only if the interpreter exited
\* with status zero; a failed pipe, start or write, a nonzero exit and a kill
\* at the deadline all give Success = 0, with or without captured records.
C2_SuccessIffExitZero ==
    \A k \in Built :
        (wres[k].Success = 1) <=> ExitedZero(scripts[wres[k].Script], wres[k].env)

\* a failed execution that captured a record, beside a successful one
C2_Witness ==
    \E k \in Built, j \in Built :
        /\ wres[k].Success = 0
        /\ wres[k].env = "runs"
        /\ wres[k].MetricOutputs # <<>>
        /\ wres[j].Success = 1

\* C3: an execution whose natural running time D exceeds its timeout T is
\* reported failed with a measured duration d such that T <= d < D.
C3_EndedAtDeadline ==
    \A k \in Built :
        LET script == scripts[wres[k].Script]
            D == Behaviour(script.Content).D
        IN  (wres[k].env = "runs" /\ script.Timeout > 0 /\ D > script.Timeout)
            => /\ wres[k].Success = 0
               /\ script.Timeout <= wres[k].Duration
               /\ wres[k].Duration < D

\* the records in the text an execution of script k has written
Captured(k) == getMetricOutput(Behaviour(scripts[k].Content).out)

FailedRun(k, env) ==
    /\ env = "runs"
    /\ scripts[k].Timeout > 0
    /\ ~ExitedZero(scripts[k], env)

\* C4: when an execution fails, the records in the output captured so far
\* are still parsed and dispatched; here for the scheduler: a goroutine whose
\* runScript returns a failure goes on to dispatch the captured records.
C4_FailedOutputDispatched ==
    [][ \A k \in 1..Len(tpc) :
          ( /\ tpc[k] = "running"
            /\ tpc'[k] # "running"
            /\ FailedRun(k, tenv[k])
            /\ Captured(k) # <<>> )
          => (tpc'[k] = "dispatch" /\ trecs'[k] = Captured(k)) ]_vars

\* C7: every well-formed record is applied to its metric's handle at its
\* label vector: in the on-demand program the value there is the sum of the
\* values dispatched to it, in the scheduler program the last of them.
C7_AddOrSet ==
    \A key \in DOMAIN elig :
        /\ handles[key[1]] # NoHandle
        /\ key[2] \in DOMAIN handles[key[1]].vals
        /\ handles[key[1]].vals[key[2]] =
              IF program = OnDemand THEN elig[key].sum ELSE elig[key].last

\* a record the dispatcher must discard: its metric is not declared, or its
\* result is no number
Discardable(mo) == mo.Name \notin DOMAIN metrics \/ ~IsDigits(mo.Result)

ProbeRecord == measurements[cur.m].MetricOutputs[cur.r]

\* C8: a record of an undeclared metric or with a result that is no number
\* is discarded: no handle changes, nothing panics, and the loop goes on to
\* the next record of the script or of the next script.
C8_DiscardAndGoOn ==
    [][ /\ (rpc = "dispatch" /\ cur.m <= Len(measurements)
              /\ Discardable(ProbeRecord))
           => /\ handles' = handles
              /\ rpc' = "dispatch"
              /\ resp' = "none"
              /\ cur' = NextRecord(measurements, cur.m, cur.r + 1)
        /\ \A k \in 1..Len(tpc) :
              (tpc[k] = "dispatch" /\ Discardable(trecs[k][tcur[k]]))
              => /\ Dispatch(trecs[k][tcur[k]]).what \in {"unknown", "ignored"}
                 /\ (tpc'[k] # tpc[k] \/ tcur'[k] # tcur[k])
                       => /\ handles' = handles
                          /\ ~crashed'
                          /\ IF tcur[k] < Len(trecs[k])
                             THEN tpc'[k] = "dispatch" /\ tcur'[k] = tcur[k] + 1
                             ELSE tpc'[k] = "wait" ]_vars

\* both discards behind the handler, the third record of the script next
C8_Witness ==
    /\ rpc = "dispatch"
    /\ cur.m <= Len(measurements)
    /\ cur.r = 3
    /\ Len(measurements) = 2
    /\ Discardable(measurements[cur.m].MetricOutputs[1])
    /\ Discardable(measurements[cur.m].MetricOutputs[2])
    /\ ~Discardable(ProbeRecord)

\* C9: after createMetrics has run at startup every declared metric (of a
\* type that has handles) has one live handle, and that handle is registered
\* with the exposition registry, in both programs.
C9_HandleRegistered ==
    phase = "serving" =>
        \A k \in GaugeVecKeys(metrics) :
            /\ handles[k] # NoHandle
            /\ Cardinality({e \in registry :
                               e.key = k /\ e.gen = handles[k].gen}) = 1

(***************************************************************************)
(* Claims about the registry setup (SpecSetup)                             *)
(***************************************************************************)
\* C10: a second call of createMetrics for the same declarations does not
\* panic and leaves every metric with the handle of the first call,
\* registered once.
C10_SetupTwice ==
    calls >= 2 =>
        /\ ~crashed
        /\ \A k \in GaugeVecKeys(metrics) :
              /\ handles[k].gen = 1
              /\ Cardinality({e \in registry : e.key = k}) = 1

(***************************************************************************)
(* Claims about the selection filter and the probe handler (Spec)          *)
(***************************************************************************)
\* the selectors scriptFilter accepts: one of them is given, and the pattern,
\* when given, compiles
AcceptedSelectors(r) ==
    /\ (r.name # <<>> \/ r.pattern # <<>>)
    /\ (r.pattern = <<>> \/ Compiles(r.pattern))

\* the configured scripts a request selects: the name is equal, or a pattern
\* is given and matches
SelectedBy(r) ==
    {k \in 1..Len(scripts) :
        \/ scripts[k].Name = r.name
        \/ (r.pattern # <<>> /\ MatchString(r.pattern, scripts[k].Name))}

\* C11: for accepted selectors scriptFilter returns exactly the configured
\* scripts whose name equals name or matches pattern (the union), each once
\* even when it satisfies both, as references to the configured scripts and
\* in configuration order; an empty pattern matches nothing.
C11_UnionInOrder ==
    AcceptedSelectors(req) =>
        /\ {selected[i] : i \in 1..Len(selected)} = SelectedBy(req)
        /\ \A i, j \in 1..Len(selected) : i < j => selected[i] < selected[j]
        /\ (req.pattern = <<>> =>
               \A i \in 1..Len(selected) : scripts[selected[i]].Name = req.name)

\* name "success" with the catch-all pattern: the script "success" satisfies
\* both criteria and is returned once, the other script by the pattern alone
C11_Witness ==
    /\ req.name = N_success
    /\ req.pattern = <<".", "*">>
    /\ Len(scripts) = 2
    /\ scripts[1].Name = N_success
    /\ selected = <<1, 2>>

\* the error scriptFilter returns for selectors it does not accept
FilterError(r) ==
    IF r.name = <<>> /\ r.pattern = <<>> THEN "name or pattern required"
    ELSE "error parsing regexp"

\* C12: with name and pattern both empty scriptFilter fails with "name or
\* pattern required", with a pattern that does not compile it fails with the
\* compile error; either way it returns no scripts and the probe handler
\* answers 500 with the error text, executes no script and changes no metric.
C12_FilterFailure ==
    [][ (probes' = probes + 1 /\ ~AcceptedSelectors(req'))
        => /\ resp' = "500"
           /\ body' = FilterError(req')
           /\ rpc' = "done"
           /\ selected' = <<>>
           /\ wpc' = <<>>
           /\ measurements' = <<>>
           /\ handles' = handles
           /\ registry' = registry ]_vars

\* a name with a pattern that does not compile, after a probe that ran
C12_Witness ==
    /\ probes = 2
    /\ req.name = N_success
    /\ req.pattern = <<"(">>
    /\ resp = "500"
    /\ body = "error parsing regexp"
    /\ Len(scripts) = 2

\* C13: every probe request with accepted selectors completes with a 200
\* answer, whatever the scripts' outcomes and records; an answer other than
\* 200 is given only for a missing or invalid selector.
C13_AlwaysAnswers200 ==
    (probes > 0 /\ rpc = "done" /\ AcceptedSelectors(req)) => resp = "200"

\* C16: runScripts returns only when every goroutine it started has ended
\* its execution and handed over its Measurement; at its return none is
\* still running and none is left blocked on the channel.
C16_AllWorkersDone ==
    RunScriptsReturned =>
        /\ Len(wpc) = Len(selected)
        /\ \A k \in 1..Len(wpc) : wpc[k] = "done"

\* runScripts has returned from two executions, one of them of the script
\* that runs for five seconds
C16_Witness ==
    /\ RunScriptsReturned
    /\ Len(wpc) = 2
    /\ \E j \in 1..2 :
          /\ scripts[measurements[j].Script].Name = N_timeout
          /\ measurements[j].Duration = 5

(***************************************************************************)
(* Claims about the scheduler program (SpecSched)                          *)
(***************************************************************************)
\* the state of script k's timer loop
LoopState(k) == <<tpc[k], tickPending[k], tenv[k], trecs[k], tcur[k]>>

\* script k's goroutine can start an execution on its pending tick and can
\* dispatch the records of the execution it has ended
CanGoOn(k) ==
    /\ (tpc[k] = "wait" /\ tickPending[k]) => ENABLED TakeTick(k, "runs")
    /\ tpc[k] = "dispatch" => ENABLED SchedDispatch(k)

\* a step of script j's loop leaves script k's loop as it is
LeavesAlone(j, k) ==
    LoopState(j)' # LoopState(j) => LoopState(k)' = LoopState(k)

\* C14: the timer loops of the scheduler are independent: whatever the other
\* scripts' executions are doing (in flight, failed, timed out), a script's
\* goroutine can start an execution on its pending tick and dispatch its
\* records, and no step of one script's loop takes a tick from, or changes
\* the execution of, another script.
C14_IndependentLoops ==
    /\ []((program = Scheduler /\ Serving) => \A k \in 1..Len(tpc) : CanGoOn(k))
    /\ [][ \A j, k \in 1..Len(tpc) : j # k => LeavesAlone(j, k) ]_vars

\* the slow script's first execution is in flight while the other script's
\* second tick has started an execution
C14_Witness ==
    /\ program = Scheduler
    /\ Serving
    /\ Len(tpc) = 2
    /\ scripts[1].Name = N_timeout
    /\ tpc[1] = "running"
    /\ tenv[1] = "runs"
    /\ ticks[1] = 1
    /\ tpc[2] = "running"
    /\ ticks[2] = 2

\* the execution of script k that is in flight ends in an error
FailingRun(k) ==
    tpc[k] = "running" /\ runScriptRecords(scripts[k], tenv[k]).err # "nil"

\* script k's goroutine waits with a tick in its channel
TickWaiting(k) == k <= Len(tpc) /\ tpc[k] = "wait" /\ tickPending[k]

\* script k is executed, or the process has ended
ExecutedAgain(k) == crashed \/ (k <= Len(tpc) /\ tpc[k] = "running")

\* C15: an execution error (failed start, nonzero exit, deadline exceeded)
\* does not end the script's timer loop: the goroutine goes back to waiting
\* on its ticker, which is left as it was, and every later tick of the
\* script starts an execution of it again.
C15_LoopSurvives ==
    /\ [][ \A k \in 1..Len(tpc) :
             (FailingRun(k) /\ tpc'[k] # tpc[k])
             => /\ tpc'[k] = "wait"
                /\ tickPending'[k] = tickPending[k]
                /\ ~crashed' ]_vars
    /\ \A k \in 1..MaxScripts : [](TickWaiting(k) => <>ExecutedAgain(k))

\* the script "failure" is executed for the third time after two failures
C15_Witness ==
    /\ program = Scheduler
    /\ Len(tpc) >= 1
    /\ scripts[1].Name = N_failure
    /\ ticks[1] = 3
    /\ tpc[1] = "running"
    /\ tenv[1] = "runs"
    /\ ~tickPending[1]

\* a record with a number for a GaugeVec metric, whose label values are not
\* as many as the label names the metric declares
Mismatched(mo) ==
    /\ mo.Name \in DOMAIN metrics
    /\ metrics[mo.Name].Type = "GaugeVec"
    /\ IsDigits(mo.Result)
    /\ Len(mo.Labels) # Len(metrics[mo.Name].Labels)

\* C17: a record whose number of label values differs from the number of
\* label names declared for its metric is dropped: the handle is unchanged,
\* nothing crashes or aborts, and the loop goes on to the sibling records
\* and leaves the sibling scripts running.
C17_MismatchDropped ==
    [][ \A k \in 1..Len(tpc) :
          (tpc[k] = "dispatch" /\ Mismatched(trecs[k][tcur[k]]) /\ SchedDispatch(k))
          => /\ handles' = handles
             /\ ~crashed'
             /\ IF tcur[k] < Len(trecs[k])
                THEN tpc'[k] = "dispatch" /\ tcur'[k] = tcur[k] + 1
                ELSE tpc'[k] = "wait" ]_vars

\* C18: the scheduler allows overlapping executions of one script: a tick
\* that fires while the previous execution of the script is in flight starts
\* a new execution alongside it.
C18_OverlapAllowed ==
    (program = Scheduler /\ Serving) =>
        \A k \in 1..Len(tpc) :
            (tpc[k] = "running" /\ tickPending[k]) => ENABLED TakeTick(k, "runs")

\* C18 (amended): the scheduler runs one execution of a script at a time: an
\* execution starts only from the goroutine's wait on its ticker, by taking
\* the tick in the channel; a tick that fires while an execution or its
\* dispatch is in flight starts nothing and is held in the channel, which
\* holds one tick, so that further ticks fired meanwhile are dropped.
C18_SingleFlight ==
    [][ \A k \in 1..Len(tpc) :
          /\ (tickPending[k] /\ ~tickPending'[k])
                => (tpc[k] = "wait" /\ tpc'[k] = "running")
          /\ (tpc[k] # "running" /\ tpc'[k] = "running")
                => (tpc[k] = "wait" /\ tickPending[k] /\ ~tickPending'[k])
          /\ (ticks'[k] = ticks[k] + 1 /\ tpc[k] # "wait")
                => (tickPending'[k] /\ tpc'[k] = tpc[k] /\ tenv'[k] = tenv[k]) ]_vars

\* three ticks of the slow script have fired, the second and the third
\* during its first execution: one is held, one was dropped
C18_Witness ==
    /\ program = Scheduler
    /\ Serving
    /\ Len(tpc) >= 1
    /\ scripts[1].Name = N_timeout
    /\ tpc[1] = "running"
    /\ tenv[1] = "runs"
    /\ ticks[1] = 3
    /\ tickPending[1]

\* C19: the scheduler keeps one repeating timer for every script that
\* carries an interval and none for a script without one (interval 0), and
\* a script without an interval does not disturb the scheduling of the
\* others: starting its goroutine leaves the process running.
C19_TimerPerInterval ==
    [][ \A k \in 1..MaxScripts :
          StartTicker(k)
          => /\ ~crashed'
             /\ (tpc'[k] = "wait") <=> (scripts[k].Interval > 0) ]_vars

\* the scripts the on-demand program has executed, the executions in flight
\* in the scheduler
Executing ==
    {wres[k].Script : k \in Built}
    \cup {k \in 1..Len(tpc) : tpc[k] = "running"}

\* C20: every script is executed with a strictly positive timeout, whatever
\* timeout the configuration gives it (none, zero or negative): the deadline
\* handed to the execution is greater than zero.
C20_PositiveTimeout ==
    \A k \in Executing : scripts[k].Timeout > 0

(***************************************************************************)
(* Claims about metric types, in both programs (Spec)                      *)
(***************************************************************************)
\* the declared metrics whose type is not the string "GaugeVec"
OtherTypeKeys == {k \in DOMAIN metrics : metrics[k].Type # "GaugeVec"}

\* a record for such a metric
OtherType(mo) == mo.Name \in OtherTypeKeys

\* C21: a metric declared with a type other than the exact string
\* "GaugeVec" is never instantiated by createMetrics (it has no handle and
\* no collector), and every record dispatched to it is ignored by
\* processMetric: no handle changes, nothing fails, and the dispatch loop
\* goes on, in the on-demand program and in the scheduler program.
C21_OtherTypesIgnored ==
    /\ [](\A k \in OtherTypeKeys :
             /\ handles[k] = NoHandle
             /\ \A e \in registry : e.key # k)
    /\ [][ /\ (rpc = "dispatch" /\ cur.m <= Len(measurements)
                  /\ OtherType(ProbeRecord))
               => /\ Dispatch(ProbeRecord).what = "ignored"
                  /\ handles' = handles
                  /\ rpc' = "dispatch"
                  /\ resp' = "none"
                  /\ cur' = NextRecord(measurements, cur.m, cur.r + 1)
            /\ \A k \in 1..Len(tpc) :
                  (tpc[k] = "dispatch" /\ OtherType(trecs[k][tcur[k]])
                      /\ SchedDispatch(k))
                  => /\ Dispatch(trecs[k][tcur[k]]).what = "ignored"
                     /\ handles' = handles
                     /\ ~crashed'
                     /\ IF tcur[k] < Len(trecs[k])
                        THEN tpc'[k] = "dispatch" /\ tcur'[k] = tcur[k] + 1
                        ELSE tpc'[k] = "wait" ]_vars

\* the handler has passed a record for the metric of type "gauge" and is at
\* the script's next record; the metric still has no handle
C21_Witness ==
    /\ program = OnDemand
    /\ rpc = "dispatch"
    /\ cur.m <= Len(measurements)
    /\ cur.r = 2
    /\ OtherType(measurements[cur.m].MetricOutputs[1])
    /\ handles[Str_g] = NoHandle
    /\ resp = "none"

=============================================================================
